---- MODULE Spec2Model ----
(***************************************************************************)
(* take_mut: take(), the take_multi! macro, the exit-on-panic guard and    *)
(* the Scope / Hole protocol, as one state machine.                        *)
(*                                                                         *)
(* A behaviour is one call made by a caller that owns the locations        *)
(* loc[1..NLoc]: either take / take_multi! on the first tk locations, or   *)
(* scope(body), whose body is an arbitrary sequence of Scope.take,         *)
(* Scope.take_and_recover, Hole.fill, Hole drops, mem::forget and panics.  *)
(* The call ends by returning, by re-raising a panic to the caller, or by  *)
(* ending the process (process::exit(-1) or process::abort()).             *)
(***************************************************************************)
EXTENDS Integers, Sequences, FiniteSets, TLC

\* ------------------------------------------------------------------ bounds
\* Values of the location type T are 0..MaxVal.
MaxVal == 1
Vals == 0..MaxVal

\* ------------------------------------------------------- program constants
\* take_multi! accepts at most 5 bindings.
MaxMulti == 5
\* std::usize::MAX, at a width of 2 bits.
USIZE_MAX == 3

\* A Hole value holds HoleRefs references (and an Option<F>), each of at least
\* one byte, and the address space has usize::MAX + 1 bytes: the Holes alive
\* at one time are fewer than usize::MAX.  Only Holes that were leaked, or
\* whose recovery failed, can make up the rest of the counter.
HoleRefs == 2
MaxLive == (USIZE_MAX + 1) \div HoleRefs

NLoc == MaxMulti
Locs == 1..NLoc
\* The locations a scope body may take: one more than the counter can count.
ScopeLocs == 1..(USIZE_MAX + 1)

\* ---------------------------------------------------------- distinguished
EMPTY == 0 - 1        \* a location whose value was ptr::read out of it
NONE == 0 - 2         \* Option::None / not set
PANIC_FN == 0 - 3     \* the recovery `fn panic` that Scope::take binds
USER_PANICS == 0 - 4  \* a caller-supplied recovery producer that panics
ERR == 0 - 5          \* Err(p) from catch_unwind

Recoveries == Vals \cup {USER_PANICS}

VARIABLES
    pc,            \* where control is
    loc,           \* the caller's locations: a value, or EMPTY
    doubleDrop,    \* a moved-out value was dropped again by a write
    \* scope()
    active_holes,  \* Scope.active_holes
    hstate,        \* per location: the state of the Hole made for it
    hkind,         \* per location: which method made its Hole
    filledWith,    \* per location: the value passed to its Hole's fill
    reordered,     \* a Hole was filled while one made before it was live
    recovery,      \* per location: Hole.recovery (Option<F>) of its live Hole
    result,        \* the result of catch_unwind: NONE, a value, or ERR
    payload,       \* which panic is in flight or was caught
    \* take() / take_multi!
    tk,            \* number of locations of the take_multi! call (1 = take)
    depth,         \* number of nested takes entered and not yet left
    exiter,        \* the ExitOnSuddenDrop guards of those takes
    bind,          \* the bindings b_1..b_k owned by the closures
    bodyIn,        \* the bindings handed to the body, NoBind before it ran
    bodyOut,       \* the bindings at the end of the body, NoBind before
    callLoc        \* the locations as take / take_multi! was called on them

vars == <<pc, loc, doubleDrop, active_holes, hstate, hkind, filledWith,
          reordered, recovery, result,
          payload, tk, depth, exiter, bind, bodyIn, bodyOut, callLoc>>

scopeVars == <<active_holes, hstate, hkind, filledWith, reordered, recovery,
               result, payload>>
takeVars == <<tk, depth, exiter, bind, bodyIn, bodyOut, callLoc>>

NoBind == [i \in Locs |-> NONE]

Init ==
    /\ pc = "caller"
    /\ loc \in [Locs -> Vals]
    /\ doubleDrop = FALSE
    /\ active_holes = 0
    /\ hstate = [i \in Locs |-> "none"]
    /\ hkind = [i \in Locs |-> "none"]
    /\ filledWith = NoBind
    /\ reordered = FALSE
    /\ recovery = [i \in Locs |-> NONE]
    /\ result = NONE
    /\ payload = "none"
    /\ tk = 0
    /\ depth = 0
    /\ exiter = <<>>
    /\ bind = NoBind
    /\ bodyIn = NoBind
    /\ bodyOut = NoBind
    /\ callLoc = NoBind

\* ======================================================= exit_on_panic.rs

\* ExitOnSuddenDrop::new()
ExiterNew == [finished |-> FALSE]

\* ExitOnSuddenDrop::done(mut self): sets the flag; self is dropped after it.
ExiterDoneNoop(e) == e
ExiterDone(e) == [e EXCEPT !.finished = TRUE]

\* Drop for ExitOnSuddenDrop: TRUE when the drop calls process::exit(-1).
ExiterDropNeverExits(e) == FALSE
ExiterDropExits(e) == ~e.finished

\* ================================================================ lib.rs

\* The caller invokes take (k = 1) or take_multi! on loc[1..k].
MultiCall(k) ==
    /\ pc = "caller"
    /\ pc' = "take"
    /\ tk' = k
    /\ callLoc' = loc
    /\ UNCHANGED <<loc, doubleDrop, depth, exiter, bind, bodyIn, bodyOut>>
    /\ UNCHANGED scopeVars

\* ptr::read(mut_ref): the value is moved out, the location is left empty.
PtrRead(l, i) == [l EXCEPT ![i] = EMPTY]

\* ptr::write(dst, v) overwrites dst without reading or dropping what is
\* there (an assignment *dst = v would drop it): TRUE when writing over the
\* contents `old` drops them.  Dropping the bits of a value that was moved
\* out drops that value a second time.
AssignDropsOld(old) == TRUE
PtrWriteDropsOld(old) == FALSE
DropsMovedOut(l, i) == PtrWriteDropsOld(l[i]) /\ l[i] = EMPTY

\* ptr::write(mut_ref, new_t) in take / take_used_for_macros_N.
TakeWriteSkipped(l, d, b) == l
TakeWrite(l, d, b) == [l EXCEPT ![d] = b[d]]

\* take_multi! with k arguments expands to k nested takes: take($mb1, ..)
\* outermost, then take_used_for_macros_1($mb2, ..), and so on down to
\* take_used_for_macros_<k-1>($mb<k>, ..).  The location of the d-th take.
MacroLocReversed(d, k) == k + 1 - d
MacroLoc(d, k) == d

\* What the closure of the d-th take returns: ($b<d>, $b1, .., $b<d-1>);
\* for d = 1 this is the closure of take, which returns $b1.
MacroTupleUnrotated(b, d, k) == [j \in 1..d |-> b[MacroLoc(j, k)]]
MacroTuple(b, d, k) ==
    [j \in 1..d |-> IF j = 1 THEN b[MacroLoc(d, k)] ELSE b[MacroLoc(j - 1, k)]]

\* The bindings after the d-th take returned: its first component went into
\* the location, the others come back as temp1.. and are assigned to
\* $b1 .. $b<d-1> by the enclosing closure.
MacroThreadBackSwapped(b, d, k) ==
    LET t == MacroTuple(b, d, k)
        temp(j) == IF d >= 3 /\ j \in {1, 2} THEN t[(3 - j) + 1] ELSE t[j + 1]
    IN  [i \in Locs |->
            IF \E j \in 1..(d - 1) : MacroLoc(j, k) = i
            THEN temp(CHOOSE j \in 1..(d - 1) : MacroLoc(j, k) = i)
            ELSE NONE]
MacroThreadBack(b, d, k) ==
    LET t == MacroTuple(b, d, k)
    IN  [i \in Locs |->
            IF \E j \in 1..(d - 1) : MacroLoc(j, k) = i
            THEN t[(CHOOSE j \in 1..(d - 1) : MacroLoc(j, k) = i) + 1]
            ELSE NONE]

\* Entry of take (depth 0) or of take_used_for_macros_<depth> (the macro
\* nests them in argument order): exit_on_panic arms its guard, then
\* old_t = ptr::read(mut_ref) is handed to the closure as its binding.
TakeEnter ==
    /\ pc = "take"
    /\ bodyOut = NoBind
    /\ depth < tk
    /\ depth' = depth + 1
    /\ exiter' = Append(exiter, ExiterNew)
    /\ bind' = [bind EXCEPT ![MacroLoc(depth + 1, tk)] = loc[MacroLoc(depth + 1, tk)]]
    /\ loc' = PtrRead(loc, MacroLoc(depth + 1, tk))
    /\ UNCHANGED doubleDrop
    /\ UNCHANGED <<pc, tk, bodyIn, bodyOut, callLoc>>
    /\ UNCHANGED scopeVars

\* The body of the innermost closure runs to its end: it may have consumed
\* and reassigned any of its bindings.
ClosureReturn(nb) ==
    /\ pc = "take"
    /\ bodyOut = NoBind
    /\ depth = tk
    /\ bind' = [i \in Locs |-> IF i <= tk THEN nb[i] ELSE NONE]
    /\ bodyIn' = bind
    /\ bodyOut' = bind'
    /\ UNCHANGED <<pc, loc, doubleDrop, tk, depth, exiter, callLoc>>
    /\ UNCHANGED scopeVars

\* The body of the innermost closure panics.
ClosurePanic ==
    /\ pc = "take"
    /\ bodyOut = NoBind
    /\ depth = tk
    /\ pc' = "take_unwind"
    /\ payload' = "body"
    /\ UNCHANGED <<loc, doubleDrop, tk, depth, exiter, bind, bodyIn, bodyOut, callLoc>>
    /\ UNCHANGED <<active_holes, hstate, hkind, filledWith, reordered, recovery, result>>

\* The closure of the take at `depth` has returned (new_t, moved values):
\* ptr::write(mut_ref, new_t); exit_on_panic calls exiter.done(), which
\* drops the guard, and returns the moved values to the enclosing closure.
TakeLeave ==
    /\ pc = "take"
    /\ bodyOut # NoBind
    /\ depth > 0
    /\ loc' = TakeWrite(loc, MacroLoc(depth, tk), bind)
    /\ doubleDrop' = (doubleDrop \/ DropsMovedOut(loc, MacroLoc(depth, tk)))
    /\ bind' = MacroThreadBack(bind, depth, tk)
    /\ LET e == ExiterDone(exiter[depth])
       IN  IF ExiterDropExits(e)
           THEN /\ pc' = "exited"
                /\ UNCHANGED <<depth, exiter>>
           ELSE /\ depth' = depth - 1
                /\ exiter' = SubSeq(exiter, 1, depth - 1)
                /\ pc' = IF depth = 1 THEN "returned" ELSE "take"
    /\ UNCHANGED <<tk, bodyIn, bodyOut, callLoc>>
    /\ UNCHANGED scopeVars

\* A panic unwinds out of the closure into exit_on_panic of the take at
\* `depth`: its guard is dropped without done().  Without a guard left the
\* panic reaches the caller of take.
TakeUnwind ==
    /\ pc = "take_unwind"
    /\ IF depth = 0
       THEN /\ pc' = "reraised"
            /\ UNCHANGED <<depth, exiter>>
       ELSE IF ExiterDropExits(exiter[depth])
            THEN /\ pc' = "exited"
                 /\ UNCHANGED <<depth, exiter>>
            ELSE /\ depth' = depth - 1
                 /\ exiter' = SubSeq(exiter, 1, depth - 1)
                 /\ pc' = "take_unwind"
    /\ UNCHANGED <<loc, doubleDrop, tk, bind, bodyIn, bodyOut, callLoc>>
    /\ UNCHANGED scopeVars

\* k single-slot takes nested by hand, take(loc_1, |b1| { take(loc_2, |b2|
\* { .. body .. b2 }); b1 }), run as one function from the locations at the
\* call and the outcome of the body (it panics, or ends with bindings out) to
\* how the d-th take ends and what the locations then hold.
RECURSIVE NestedTake(_, _, _, _, _)
NestedTake(l, d, k, panics, out) ==
    LET old == PtrRead(l, d)
        inner == IF d = k
                 THEN [pc |-> IF panics THEN "unwind" ELSE "returned", loc |-> old]
                 ELSE NestedTake(old, d + 1, k, panics, out)
    IN  IF inner.pc = "exited"
        THEN inner
        ELSE IF inner.pc = "unwind"
             THEN [pc |-> IF ExiterDropExits(ExiterNew) THEN "exited" ELSE "unwind",
                   loc |-> inner.loc]
             ELSE [pc |-> IF ExiterDropExits(ExiterDone(ExiterNew))
                          THEN "exited" ELSE "returned",
                   loc |-> [inner.loc EXCEPT ![d] = out[d]]]

\* ============================================================= scoped.rs

LiveHoles == {i \in Locs : hstate[i] = "live"}

\* num_holes - 1 on a usize (a release build wraps; never reached at 0).
Dec(n) == (n + USIZE_MAX) % (USIZE_MAX + 1)

\* scope(f): let this = Scope { active_holes: Cell::new(0), .. }; f(&this)
ScopeCall ==
    /\ pc = "caller"
    /\ pc' = "body"
    /\ active_holes' = 0
    /\ UNCHANGED <<loc, doubleDrop, hstate, hkind, filledWith, reordered, recovery, result, payload>>
    /\ UNCHANGED takeVars

\* Scope::take_and_recover(mut_ref = loc[i], recovery = rec).  A location is
\* borrowed for 'm: 's, so a scope takes each location at most once; the
\* locations are numbered in the order in which the body takes them.
take_and_recoverReadFirst(i, rec) ==
    /\ pc = "body"
    /\ i \in ScopeLocs
    /\ hstate[i] = "none"
    /\ \A j \in 1..(i - 1) : hstate[j] # "none"
    /\ loc' = PtrRead(loc, i)
    /\ UNCHANGED doubleDrop
    /\ IF active_holes = USIZE_MAX
       THEN /\ pc' = "unwinding"
            /\ payload' = "overflow"
            /\ UNCHANGED <<active_holes, hstate, recovery>>
       ELSE /\ Cardinality(LiveHoles) < MaxLive
            /\ active_holes' = active_holes + 1
            /\ hstate' = [hstate EXCEPT ![i] = "live"]
            /\ recovery' = [recovery EXCEPT ![i] = rec]
            /\ UNCHANGED <<pc, payload>>
    /\ UNCHANGED <<filledWith, reordered, result>>
    /\ UNCHANGED takeVars
take_and_recover(i, rec) ==
    /\ pc = "body"
    /\ i \in ScopeLocs
    /\ hstate[i] = "none"
    /\ \A j \in 1..(i - 1) : hstate[j] # "none"
    /\ IF active_holes = USIZE_MAX
       THEN /\ pc' = "unwinding"
            /\ payload' = "overflow"
            /\ UNCHANGED <<loc, doubleDrop, active_holes, hstate, recovery>>
       ELSE /\ Cardinality(LiveHoles) < MaxLive
            /\ active_holes' = active_holes + 1
            /\ loc' = PtrRead(loc, i)
            /\ UNCHANGED doubleDrop
            /\ hstate' = [hstate EXCEPT ![i] = "live"]
            /\ recovery' = [recovery EXCEPT ![i] = rec]
            /\ UNCHANGED <<pc, payload>>
    /\ UNCHANGED <<filledWith, reordered, result>>
    /\ UNCHANGED takeVars

\* scope.take_and_recover(&mut loc[i], recovery) called by the body.
ScopeTakeAndRecover(i, rec) ==
    /\ take_and_recover(i, rec)
    /\ hkind' = [hkind EXCEPT ![i] =
                    IF hstate'[i] = "live" THEN "take_and_recover" ELSE @]

\* Scope::take(mut_ref): take_and_recover with the recovery `fn panic`.
ScopeTakeDefaultRecovery(i) ==
    /\ take_and_recover(i, 0)
    /\ hkind' = [hkind EXCEPT ![i] = IF hstate'[i] = "live" THEN "take" ELSE @]
ScopeTake(i) ==
    /\ take_and_recover(i, PANIC_FN)
    /\ hkind' = [hkind EXCEPT ![i] = IF hstate'[i] = "live" THEN "take" ELSE @]

\* Hole::fill(self, t): ptr::write, decrement, mem::forget(self).
HoleFillNoForget(i, v) ==
    /\ pc = "body"
    /\ hstate[i] = "live"
    /\ loc' = [loc EXCEPT ![i] = v]
    /\ doubleDrop' = (doubleDrop \/ DropsMovedOut(loc, i))
    /\ active_holes' = Dec(active_holes)
    /\ filledWith' = [filledWith EXCEPT ![i] = v]
    /\ reordered' = (reordered \/ \E j \in 1..(i - 1) : hstate[j] = "live")
    /\ UNCHANGED <<pc, hstate, hkind, recovery, result, payload>>
    /\ UNCHANGED takeVars
HoleFillOldestHole(i, v) ==
    /\ pc = "body"
    /\ hstate[i] = "live"
    /\ LET o == CHOOSE j \in LiveHoles : \A m \in LiveHoles : j <= m
       IN  /\ loc' = [loc EXCEPT ![o] = v]
           /\ doubleDrop' = (doubleDrop \/ DropsMovedOut(loc, o))
    /\ active_holes' = Dec(active_holes)
    /\ hstate' = [hstate EXCEPT ![i] = "filled"]
    /\ recovery' = [recovery EXCEPT ![i] = NONE]
    /\ filledWith' = [filledWith EXCEPT ![i] = v]
    /\ reordered' = (reordered \/ \E j \in 1..(i - 1) : hstate[j] = "live")
    /\ UNCHANGED <<pc, hkind, result, payload>>
    /\ UNCHANGED takeVars
HoleFill(i, v) ==
    /\ pc = "body"
    /\ hstate[i] = "live"
    /\ loc' = [loc EXCEPT ![i] = v]
    /\ doubleDrop' = (doubleDrop \/ DropsMovedOut(loc, i))
    /\ active_holes' = Dec(active_holes)
    /\ hstate' = [hstate EXCEPT ![i] = "filled"]
    /\ recovery' = [recovery EXCEPT ![i] = NONE]
    /\ filledWith' = [filledWith EXCEPT ![i] = v]
    /\ reordered' = (reordered \/ \E j \in 1..(i - 1) : hstate[j] = "live")
    /\ UNCHANGED <<pc, hkind, result, payload>>
    /\ UNCHANGED takeVars

\* What calling the recovery producer f does: TRUE when it panics
\* (expect() on None panics as well).
RecoveryPanics(f) == f \in {PANIC_FN, USER_PANICS, NONE}

\* Drop for Hole, run when a live Hole goes out of scope in the body or
\* while a panic unwinds the body.  A recovery producer that panics leaves
\* the location empty and the counter as it was; that panic starts
\* unwinding, or, when one is already unwinding, aborts the process.
HoleDropDecFirst(i) ==
    /\ pc \in {"body", "unwinding"}
    /\ hstate[i] = "live"
    /\ recovery' = [recovery EXCEPT ![i] = NONE]
    /\ active_holes' = Dec(active_holes)
    /\ IF RecoveryPanics(recovery[i])
       THEN /\ hstate' = [hstate EXCEPT ![i] = "failed"]
            /\ pc' = IF pc = "body" THEN "unwinding" ELSE "aborted"
            /\ payload' = IF pc = "body" THEN "recovery" ELSE payload
            /\ UNCHANGED <<loc, doubleDrop>>
       ELSE /\ loc' = [loc EXCEPT ![i] = recovery[i]]
            /\ doubleDrop' = (doubleDrop \/ DropsMovedOut(loc, i))
            /\ hstate' = [hstate EXCEPT ![i] = "recovered"]
            /\ UNCHANGED <<pc, payload>>
    /\ UNCHANGED <<hkind, filledWith, reordered, result>>
    /\ UNCHANGED takeVars
HoleDropNoWrite(i) ==
    /\ pc \in {"body", "unwinding"}
    /\ hstate[i] = "live"
    /\ recovery' = [recovery EXCEPT ![i] = NONE]
    /\ IF RecoveryPanics(recovery[i])
       THEN /\ hstate' = [hstate EXCEPT ![i] = "failed"]
            /\ pc' = IF pc = "body" THEN "unwinding" ELSE "aborted"
            /\ payload' = IF pc = "body" THEN "recovery" ELSE payload
            /\ UNCHANGED <<loc, doubleDrop, active_holes>>
       ELSE /\ active_holes' = Dec(active_holes)
            /\ hstate' = [hstate EXCEPT ![i] = "recovered"]
            /\ UNCHANGED <<loc, doubleDrop, pc, payload>>
    /\ UNCHANGED <<hkind, filledWith, reordered, result>>
    /\ UNCHANGED takeVars
HoleDrop(i) ==
    /\ pc \in {"body", "unwinding"}
    /\ hstate[i] = "live"
    /\ recovery' = [recovery EXCEPT ![i] = NONE]
    /\ IF RecoveryPanics(recovery[i])
       THEN /\ hstate' = [hstate EXCEPT ![i] = "failed"]
            /\ pc' = IF pc = "body" THEN "unwinding" ELSE "aborted"
            /\ payload' = IF pc = "body" THEN "recovery" ELSE payload
            /\ UNCHANGED <<loc, doubleDrop, active_holes>>
       ELSE /\ loc' = [loc EXCEPT ![i] = recovery[i]]
            /\ doubleDrop' = (doubleDrop \/ DropsMovedOut(loc, i))
            /\ active_holes' = Dec(active_holes)
            /\ hstate' = [hstate EXCEPT ![i] = "recovered"]
            /\ UNCHANGED <<pc, payload>>
    /\ UNCHANGED <<hkind, filledWith, reordered, result>>
    /\ UNCHANGED takeVars

\* The body leaks a live Hole (mem::forget, a reference cycle): its Drop
\* never runs.
HoleForget(i) ==
    /\ pc = "body"
    /\ hstate[i] = "live"
    /\ hstate' = [hstate EXCEPT ![i] = "leaked"]
    /\ recovery' = [recovery EXCEPT ![i] = NONE]
    /\ UNCHANGED <<pc, loc, doubleDrop, active_holes, hkind, filledWith, reordered, result, payload>>
    /\ UNCHANGED takeVars

\* The body returns r: every Hole it owned was consumed, dropped or leaked.
BodyReturn(r) ==
    /\ pc = "body"
    /\ LiveHoles = {}
    /\ pc' = "closing"
    /\ result' = r
    /\ UNCHANGED <<loc, doubleDrop, active_holes, hstate, hkind, filledWith, reordered, recovery, payload>>
    /\ UNCHANGED takeVars

\* The body panics.
BodyPanic ==
    /\ pc = "body"
    /\ pc' = "unwinding"
    /\ payload' = "body"
    /\ UNCHANGED <<loc, doubleDrop, active_holes, hstate, hkind, filledWith, reordered, recovery, result>>
    /\ UNCHANGED takeVars

\* panic::catch_unwind returns Err(p) once the body's frames are unwound.
CatchUnwind ==
    /\ pc = "unwinding"
    /\ LiveHoles = {}
    /\ pc' = "closing"
    /\ result' = ERR
    /\ UNCHANGED <<loc, doubleDrop, active_holes, hstate, hkind, filledWith, reordered, recovery, payload>>
    /\ UNCHANGED takeVars

\* The closing check of scope(): TRUE when it calls process::abort().
ClosingCheckSkipped(n) == FALSE
ClosingCheckInverted(n) == n = 0
ClosingCheckAborts(n) == n # 0

\* match result { Ok(r) => r, Err(p) => panic::resume_unwind(p) }
ScopeMatchAbortsOnErr(res) == IF res = ERR THEN "aborted" ELSE "returned"
ScopeMatch(res) == IF res = ERR THEN "reraised" ELSE "returned"

\* scope() after catch_unwind: abort, return r, or resume_unwind(p).
ScopeClose ==
    /\ pc = "closing"
    /\ pc' = IF ClosingCheckAborts(active_holes) THEN "aborted"
             ELSE ScopeMatch(result)
    /\ UNCHANGED <<loc, doubleDrop, active_holes, hstate, hkind, filledWith, reordered, recovery, result, payload>>
    /\ UNCHANGED takeVars

\* ================================================================== Next

Next ==
    \/ \E k \in 1..MaxMulti : MultiCall(k)
    \/ TakeEnter
    \/ \E nb \in [Locs -> Vals] : ClosureReturn(nb)
    \/ ClosurePanic
    \/ TakeLeave
    \/ TakeUnwind
    \/ ScopeCall
    \/ \E i \in ScopeLocs, rec \in Recoveries : ScopeTakeAndRecover(i, rec)
    \/ \E i \in ScopeLocs : ScopeTake(i)
    \/ \E i \in ScopeLocs, v \in Vals : HoleFill(i, v)
    \/ \E i \in ScopeLocs : HoleDrop(i)
    \/ \E i \in ScopeLocs : HoleForget(i)
    \/ \E r \in Vals : BodyReturn(r)
    \/ BodyPanic
    \/ CatchUnwind
    \/ ScopeClose

Spec == Init /\ [][Next]_vars

\* ================================================================ claims

\* The call has handed control back to its caller.
BackInCaller == pc \in {"returned", "reraised"}
\* The Hole made for location i has been discharged.
Discharged(i) == hstate[i] \in {"filled", "recovered"}
AllDischarged == \A i \in Locs : hstate[i] = "none" \/ Discharged(i)

\* C1: when the closure of take, or of any nested take of take_multi!,
\* panics, the innermost guard ends the process with exit(-1): control never
\* comes back to the caller of take, no enclosing take frame is unwound (all
\* tk guards are still in place), and so whenever the caller runs again
\* after a take no location is empty.
C1_PanicExitsProcess ==
    /\ (tk > 0 /\ payload = "body") =>
          /\ pc \in {"take_unwind", "exited"}
          /\ depth = tk
          /\ Len(exiter) = tk
    /\ (tk > 0 /\ BackInCaller) => \A i \in Locs : loc[i] # EMPTY
C1_Witness ==
    /\ tk > 1
    /\ payload = "body"
    /\ pc = "exited"
    /\ \A i \in 1..tk : loc[i] = EMPTY

\* C2: after take(location, closure) returns, the location holds exactly the
\* value the closure returned (the old value when the closure is the
\* identity, B when the closure drops the old value and returns B).
C2_TakeInstallsResult ==
    (tk = 1 /\ pc = "returned") => (loc[1] \in Vals /\ loc[1] = bodyOut[1])
C2_Witness ==
    /\ tk = 1
    /\ pc = "returned"
    /\ loc[1] = bodyOut[1]
    /\ bodyOut[1] # bodyIn[1]

\* C3: whenever scope() has handed control back to its caller, by returning
\* or by re-raising a panic, every location holds a value.
C3_NoEmptyLocationAfterScope ==
    (tk = 0 /\ BackInCaller) => \A i \in Locs : loc[i] # EMPTY
C3_Witness ==
    /\ tk = 0
    /\ pc = "reraised"
    /\ \E i \in Locs : hstate[i] = "recovered"
    /\ \E i \in Locs : hstate[i] = "filled"

\* C4 as claimed: scope() returns only if every Hole made in it was filled
\* by Hole.fill.
C4_ReturnsOnlyIfAllFilled ==
    (tk = 0 /\ pc = "returned") =>
        \A i \in Locs : hstate[i] \in {"none", "filled"}

\* C4 as amended: scope() returns only if every Hole made in it was
\* discharged, by Hole.fill or, for a Hole of take_and_recover dropped
\* unfilled, by its recovery producer returning a value; with any other Hole
\* outstanding at the closing check the counter is not 0 and scope() does
\* not return.
C4_ReturnsOnlyIfAllDischarged ==
    /\ (tk = 0 /\ pc = "returned") =>
          /\ active_holes = 0
          /\ AllDischarged
          /\ \A i \in Locs : hkind[i] = "take" => hstate[i] = "filled"
    /\ (pc = "closing" /\ ~AllDischarged) => active_holes # 0
C4_Witness ==
    /\ tk = 0
    /\ pc = "returned"
    /\ \E i \in Locs : hstate[i] = "recovered"

\* C5: a Hole is discharged exactly once.  A step of a scope that puts a
\* value into an empty location consumes that location's live Hole and
\* lowers the counter by exactly 1; a filled Hole stays filled and its
\* location is not written again (its recovery producer is never run, its
\* destruction writes nothing); the counter is lowered only by a step that
\* consumes a live Hole.
C5_Step ==
    \A i \in Locs :
        /\ (tk = 0 /\ loc[i] = EMPTY /\ loc'[i] # EMPTY) =>
              /\ hstate[i] = "live"
              /\ hstate'[i] \in {"filled", "recovered"}
              /\ active_holes' = active_holes - 1
        /\ hstate[i] = "filled" =>
              /\ hstate'[i] = "filled"
              /\ loc'[i] = loc[i]
              /\ recovery'[i] = NONE
        /\ active_holes' < active_holes =>
              \E j \in Locs : /\ hstate[j] = "live"
                              /\ hstate'[j] \in {"filled", "recovered"}
\* C5: every step discharges a Hole at most once (C5_Step).
C5_HoleDischargedOnce == [][C5_Step]_vars
C5_Witness ==
    /\ pc = "returned"
    /\ active_holes = 0
    /\ \E i \in Locs : hstate[i] = "filled" /\ loc[i] # EMPTY

\* C6: a Hole made by Scope.take is never repaired by its destruction, and
\* once one was destroyed unfilled (on the normal path or during unwinding)
\* scope() neither returns nor re-raises: the body is unwound and the
\* closing check, where the counter is not 0, aborts, or the process is
\* already aborted.
C6_UnfilledStrictHoleFatal ==
    \A i \in Locs :
        hkind[i] = "take" =>
            /\ hstate[i] # "recovered"
            /\ hstate[i] = "failed" =>
                  /\ pc \in {"unwinding", "closing", "aborted"}
                  /\ pc = "closing" => active_holes # 0
C6_Witness ==
    /\ pc = "aborted"
    /\ payload = "recovery"
    /\ \E i \in Locs : hkind[i] = "take" /\ hstate[i] = "failed"

\* C7: dropping, while the body runs normally, a live Hole whose recovery
\* producer returns w writes w into its location, lowers the counter by 1
\* and lets the body go on; when the body then returns r with every Hole
\* filled or recovered, the counter is 0 at the closing check and scope()
\* returns.
C7_Step ==
    \A i \in Locs :
        (/\ pc = "body"
         /\ hstate[i] = "live"
         /\ recovery[i] \in Vals
         /\ hstate'[i] \notin {"live", "filled", "leaked"}) =>
            /\ hstate'[i] = "recovered"
            /\ loc'[i] = recovery[i]
            /\ active_holes' = active_holes - 1
            /\ pc' = "body"
C7_Closing ==
    (/\ tk = 0
     /\ pc \in {"closing", "returned", "reraised", "aborted"}
     /\ result \in Vals
     /\ AllDischarged) =>
        /\ active_holes = 0
        /\ pc \in {"closing", "returned"}
\* C7: a returning recovery repairs the location of a Hole dropped on the
\* normal path (C7_Step) and scope() then returns (C7_Closing).
C7_DropRecoversOnNormalPath == [][C7_Step]_vars /\ []C7_Closing
C7_Witness ==
    /\ pc = "returned"
    /\ result \in Vals
    /\ \E i \in Locs : /\ hkind[i] = "take_and_recover"
                       /\ hstate[i] = "recovered"
                       /\ loc[i] \in Vals

\* C8: while a panic of the body unwinds, dropping a live Hole whose
\* recovery producer returns w writes w into its location and lowers the
\* counter by 1; when every Hole is then filled or recovered the counter is
\* 0 at the closing check and scope() re-raises that panic: it neither
\* aborts nor returns.
C8_Step ==
    \A i \in Locs :
        (/\ pc = "unwinding"
         /\ hstate[i] = "live"
         /\ recovery[i] \in Vals
         /\ hstate'[i] # "live") =>
            /\ hstate'[i] = "recovered"
            /\ loc'[i] = recovery[i]
            /\ active_holes' = active_holes - 1
            /\ pc' = "unwinding"
            /\ payload' = payload
C8_Closing ==
    (/\ tk = 0
     /\ payload = "body"
     /\ pc \in {"closing", "returned", "reraised", "aborted"}
     /\ AllDischarged) =>
        /\ active_holes = 0
        /\ result = ERR
        /\ pc \in {"closing", "reraised"}
\* C8: returning recoveries repair the locations while the body's panic
\* unwinds (C8_Step) and scope() then re-raises it (C8_Closing).
C8_PanicRecoversAndPropagates == [][C8_Step]_vars /\ []C8_Closing
C8_Witness ==
    /\ pc = "reraised"
    /\ payload = "body"
    /\ active_holes = 0
    /\ \E i \in Locs : /\ hkind[i] = "take_and_recover"
                       /\ hstate[i] = "recovered"

\* C9: once a recovery producer has panicked in the destruction of a Hole,
\* scope() neither returns nor re-raises: the location stays counted, so the
\* closing check aborts, or the process is already aborted.
C9_RecoveryFailureFatal ==
    \A i \in Locs :
        hstate[i] = "failed" =>
            /\ loc[i] = EMPTY
            /\ pc \in {"unwinding", "closing", "aborted"}
            /\ pc = "closing" => active_holes # 0
C9_Witness ==
    /\ pc = "aborted"
    /\ payload = "body"
    /\ \E i \in Locs : hkind[i] = "take_and_recover" /\ hstate[i] = "failed"

\* C10: after Scope.take / Scope.take_and_recover was called with the
\* counter at usize::MAX, scope() neither returns nor re-raises the panic:
\* a counter that high counts a leaked Hole, which nothing discharges, so
\* the closing check aborts.
C10_OverflowFatal ==
    payload = "overflow" =>
        /\ pc \in {"unwinding", "closing", "aborted"}
        /\ \E i \in Locs : hstate[i] = "leaked"
        /\ active_holes # 0
C10_Witness ==
    /\ payload = "overflow"
    /\ pc = "aborted"
    /\ result = ERR

\* C11: when take_multi! on loc_1..loc_k (k = 1..5) is back in its caller
\* after a body that returned normally, every loc_i holds the final value of
\* its own binding b_i; a binding the body left as it got it puts the value
\* loc_i had at the call back, and no other location is changed.
C11_EachLocationGetsOwnBinding ==
    (tk >= 1 /\ pc = "returned") =>
        /\ \A i \in 1..tk :
              /\ loc[i] = bodyOut[i]
              /\ bodyIn[i] = callLoc[i]
              /\ (bodyOut[i] = bodyIn[i]) => (loc[i] = callLoc[i])
        /\ \A i \in Locs \ (1..tk) : loc[i] = callLoc[i]
C11_Witness ==
    /\ tk = 5
    /\ pc = "returned"
    /\ bodyOut[1] # bodyOut[2]
    /\ bodyOut[2] # bodyOut[3]
    /\ bodyOut[4] # bodyOut[5]
    /\ bodyOut[3] = bodyIn[3]
    /\ bodyOut[1] # bodyIn[1]
    /\ \A i \in 1..tk : loc[i] = bodyOut[i]

\* C12: take_multi! on k = 2..5 locations ends as k single-slot takes
\* nested by hand end, for every contents at the call and every outcome of
\* the body: both return with the same contents in every location, or both
\* end the process with exit(-1); take_multi! never re-raises the panic.
C12_MultiEqualsNestedTakes ==
    (tk >= 2 /\ pc \in {"returned", "reraised", "exited"}) =>
        LET n == NestedTake(callLoc, 1, tk, payload = "body", bodyOut)
        IN  /\ pc = n.pc
            /\ loc = n.loc
C12_Witness ==
    /\ tk >= 2
    /\ pc = "returned"
    /\ \A i \in 1..tk : loc[i] # callLoc[i]
    /\ loc = NestedTake(callLoc, 1, tk, FALSE, bodyOut).loc

\* C13: a value has exactly one owner at every step.  A location is empty
\* exactly while the computation owns what was read out of it: in take /
\* take_multi! while its binding is held by a closure, in a scope from the
\* take until Hole.fill or a returning recovery refills it.  The body of
\* take gets the very value the location held at the call, and no write of
\* a replacement (take, Hole.fill, Hole drop-recovery) drops the moved-out
\* contents a second time.
C13_SingleOwner ==
    /\ doubleDrop = FALSE
    /\ pc = "caller" => \A i \in Locs : loc[i] \in Vals
    /\ (tk > 0 /\ pc \in {"take", "returned"}) =>
          \A i \in Locs :
              /\ (loc[i] = EMPTY) <=> (bind[i] # NONE)
              /\ (loc[i] = EMPTY) => (bind[i] \in Vals)
              /\ (bodyOut = NoBind /\ bind[i] # NONE) => (bind[i] = callLoc[i])
              /\ (bodyOut # NoBind /\ i <= tk) => (bodyIn[i] = callLoc[i])
    /\ (tk = 0 /\ pc # "caller") =>
          \A i \in Locs :
              /\ (loc[i] = EMPTY) <=> (hstate[i] \in {"live", "leaked", "failed"})
              /\ (loc[i] # EMPTY) => (loc[i] \in Vals)
C13_Witness ==
    /\ doubleDrop = FALSE
    /\ tk = 0
    /\ pc = "body"
    /\ \E i \in Locs : hstate[i] = "filled" /\ loc[i] \in Vals
    /\ \E i \in Locs : hstate[i] = "recovered" /\ loc[i] \in Vals
    /\ \E i \in Locs : hstate[i] = "live" /\ loc[i] = EMPTY

\* C14: Holes of one scope may be filled in any order relative to the order
\* in which they were made.  A location whose Hole was filled holds the
\* value passed to that fill, from the fill on; and once the body has
\* returned with every Hole it made filled, the counter is 0 and scope() is
\* at its closing check or has returned normally: it never aborts.
C14_FillInAnyOrder ==
    /\ \A i \in Locs : hstate[i] = "filled" => loc[i] = filledWith[i]
    /\ (tk = 0 /\ result \in Vals /\ \A i \in Locs : hstate[i] \in {"none", "filled"}) =>
          /\ pc \in {"closing", "returned"}
          /\ active_holes = 0
C14_Witness ==
    /\ pc = "returned"
    /\ reordered
    /\ \A i \in 1..3 : hstate[i] = "filled" /\ loc[i] = filledWith[i]
    /\ filledWith[1] # filledWith[2]

\* C15: in a scope the counter equals the number of locations emptied in it
\* and not yet refilled: it is 0 when the body starts, every step that
\* changes it changes it by exactly one together with one location (+1 when
\* a take empties it, -1 when Hole.fill or a returning recovery refills it),
\* a leaked Hole and a Hole whose recovery panicked still count, and it is
\* never decremented at 0.
C15_Unrefilled == {i \in Locs : loc[i] = EMPTY}
C15_Step ==
    tk = 0 =>
        /\ (pc = "caller" /\ pc' = "body") => active_holes' = 0
        /\ active_holes' > active_holes =>
              /\ active_holes' = active_holes + 1
              /\ \E i \in Locs :
                    /\ hstate[i] = "none" /\ hstate'[i] = "live"
                    /\ C15_Unrefilled' = C15_Unrefilled \cup {i}
                    /\ i \notin C15_Unrefilled
        /\ active_holes' < active_holes =>
              /\ active_holes > 0
              /\ active_holes' = active_holes - 1
              /\ \E i \in Locs :
                    /\ hstate[i] = "live" /\ hstate'[i] \in {"filled", "recovered"}
                    /\ C15_Unrefilled' = C15_Unrefilled \ {i}
                    /\ i \in C15_Unrefilled
        /\ active_holes' = active_holes => C15_Unrefilled' = C15_Unrefilled
C15_Counts ==
    (tk = 0 /\ pc # "caller") =>
        /\ active_holes = Cardinality(C15_Unrefilled)
        /\ C15_Unrefilled = {i \in Locs : hstate[i] \in {"live", "leaked", "failed"}}
\* C15: the counter always equals the number of locations emptied and not
\* yet refilled (C15_Counts) and moves by one with each of them (C15_Step).
C15_CounterCountsUnrefilled == []C15_Counts /\ [][C15_Step]_vars
C15_Witness ==
    /\ tk = 0
    /\ pc = "body"
    /\ active_holes = USIZE_MAX
    /\ \E i \in Locs : hstate[i] = "leaked"
    /\ \E i \in Locs : hstate[i] = "filled"
    /\ \E i \in Locs : hstate[i] = "live"

\* C16 (steps): the closing check is the only way back to the caller of
\* scope(); it is reached only from the body's return or from the end of its
\* unwinding; with the counter 0 and the body's result r it returns, keeping
\* r and every location as they are.
C16_Step ==
    tk = 0 =>
        /\ (pc' \in {"returned", "reraised"} /\ pc' # pc) => pc = "closing"
        /\ (pc' = "closing" /\ pc' # pc) =>
              /\ pc \in {"body", "unwinding"}
              /\ LiveHoles = {}
              /\ (pc = "body") <=> (result' \in Vals)
        /\ (pc = "closing" /\ result \in Vals /\ active_holes = 0 /\ pc' # pc) =>
              /\ pc' = "returned"
              /\ result' = result
              /\ loc' = loc
\* C16 (states): at the closing check the body owns no Hole any more and the
\* result of catch_unwind is known; scope() is back in its caller only with
\* the counter at 0, and has returned only with the body's result.
C16_Closing ==
    tk = 0 =>
        /\ pc = "closing" => (LiveHoles = {} /\ result # NONE)
        /\ pc \in {"returned", "reraised"} => (active_holes = 0 /\ LiveHoles = {})
        /\ pc = "returned" => result \in Vals
        /\ pc = "reraised" => result = ERR
\* C16: Closed-Clean: a body that returned r with the counter at 0 at the
\* closing check makes scope() return r (C16_Step); the check comes after
\* the body has fully returned and before scope() returns or re-raises
\* (C16_Step, C16_Closing).
C16_ClosedClean == [][C16_Step]_vars /\ []C16_Closing
C16_Witness ==
    /\ tk = 0
    /\ pc = "returned"
    /\ result \in Vals
    /\ active_holes = 0
    /\ \E i \in Locs : hstate[i] = "filled"
    /\ \E i \in Locs : hstate[i] = "recovered"

\* C17: during take_multi! on loc_1..loc_k the empty locations are at every
\* step exactly loc_1..loc_depth, a prefix in argument order: they are
\* emptied loc_1 first, refilled loc_k first, and no location holds a value
\* again while a later-listed one is empty.  The body runs only with all k
\* empty: it got all k bindings, and when it panics all k guards are armed.
C17_NestingOrder ==
    (tk >= 1 /\ pc \in {"take", "take_unwind", "exited", "returned"}) =>
        /\ depth \in 0..tk
        /\ \A i \in 1..tk : (loc[i] = EMPTY) <=> (i <= depth)
        /\ \A i \in Locs \ (1..tk) : loc[i] # EMPTY
        /\ bodyOut # NoBind => \A i \in 1..tk : bodyIn[i] = callLoc[i]
        /\ payload = "body" => depth = tk
        /\ (bodyOut = NoBind /\ payload = "none") => \A i \in 1..depth : bind[i] = callLoc[i]
C17_Witness ==
    /\ tk = 5
    /\ pc = "take"
    /\ bodyOut # NoBind
    /\ \A i \in 1..3 : loc[i] = EMPTY
    /\ \A i \in 4..5 : loc[i] = bodyOut[i]

\* C18: the guard of exit_on_panic ends the process if and only if the
\* guarded closure panics.  Every guard is armed (finished = false) while
\* its closure runs, one guard per take entered; the process has exited only
\* with a panic of the body in flight, and such a panic leads nowhere but to
\* the exit; a take that returns has disarmed and dropped every guard
\* without exiting.
C18_ExitIffPanic ==
    tk > 0 =>
        /\ Len(exiter) = depth
        /\ \A g \in 1..Len(exiter) : ~exiter[g].finished
        /\ pc = "exited" => payload = "body"
        /\ payload = "body" => pc \in {"take_unwind", "exited"}
        /\ pc = "returned" => (payload = "none" /\ exiter = <<>> /\ bodyOut # NoBind)
        /\ pc \in {"take", "take_unwind", "exited", "returned"}
C18_Witness ==
    /\ tk = 5
    /\ pc = "take"
    /\ bodyOut # NoBind
    /\ payload = "none"
    /\ depth = 2
    /\ Len(exiter) = 2
    /\ \A g \in 1..2 : ~exiter[g].finished

\* C19 (steps): the step in which Scope.take / take_and_recover fails on a
\* counter at usize::MAX starts the panic and changes nothing else: no
\* location, not the counter, and no Hole comes to exist.
C19_Step ==
    (payload' = "overflow" /\ payload # "overflow") =>
        /\ pc = "body" /\ pc' = "unwinding"
        /\ active_holes = USIZE_MAX
        /\ active_holes' = active_holes
        /\ loc' = loc
        /\ hstate' = hstate
        /\ hkind' = hkind
        /\ recovery' = recovery
        /\ \E i \in ScopeLocs : hstate[i] = "none" /\ loc[i] \in Vals
\* C19 (states): after the failed take every empty location is that of a
\* Hole that counts, and the counter counts exactly these.
C19_Accounted ==
    payload = "overflow" =>
        /\ \A i \in Locs : loc[i] = EMPTY => hstate[i] \in {"live", "leaked", "failed"}
        /\ \A i \in Locs : hstate[i] = "none" => loc[i] \in Vals
        /\ active_holes = Cardinality({i \in Locs : loc[i] = EMPTY})
\* C19: a take that fails on the full counter has no effect on its location
\* or on the counter (C19_Step) and leaves no empty location unaccounted
\* for (C19_Accounted).
C19_FailedTakeHasNoEffect == [][C19_Step]_vars /\ []C19_Accounted
C19_Witness ==
    /\ payload = "overflow"
    /\ pc = "unwinding"
    /\ active_holes = USIZE_MAX
    /\ hstate[USIZE_MAX + 1] = "none"
    /\ loc[USIZE_MAX + 1] \in Vals
    /\ \A i \in 1..USIZE_MAX : loc[i] = EMPTY

====
